---- MODULE Spec2Model ----
(***************************************************************************)
(* Model of the Auth0 bulk user creation notebook                          *)
(* (src/Auth0_Bulk_User_Creation.ipynb): the user generator, the payload   *)
(* writer, and the three calls against the Management API                  *)
(* (get_connection_id, start_import_job, check_job_status), together with  *)
(* the notebook's top-level cells that chain them.                         *)
(*                                                                         *)
(* Python values are represented as follows.                               *)
(*   str            a TLA+ string                                          *)
(*   None / a value <<>> / <<v>>  (an optional of length 0 or 1)           *)
(*   dict           a record; d[k] raises KeyError when k is no field      *)
(*   list           a sequence                                             *)
(*   requests.Response   [status_code |-> Int, body |-> parsed JSON]       *)
(*   a returned object   [type |-> "dict" | "Response", value |-> ...]     *)
(* The remote service is the environment: it picks every response.         *)
(***************************************************************************)
EXTENDS Integers, Sequences, FiniteSets, TLC

VARIABLES
    pc,               \* the call being executed, or "polling", "done", "halted"
    cont,             \* the calls still to run after the current one returns
    exc,              \* the uncaught exception that halted the run, or "none"
    log,              \* every side effect so far, in order (requests, writes, sleeps)
    remote,           \* the import job's status on the remote side, "none" before it exists
    files,            \* the file system: a function from file name to content
    connection_name,  \* argument of get_connection_id
    CONNECTION_ID,    \* optional: the id get_connection_id returned
    response,         \* optional: the listing get_connection_id returned with it
    genargs,          \* arguments of create_users / create_user_file
    users,            \* optional: the list create_users returned
    FILENAME,         \* optional: the name create_user_file returned
    external_id,      \* optional argument of start_import_job
    job,              \* optional: what start_import_job returned
    sleep,            \* the sleep argument of check_job_status
    job_status        \* optional: what check_job_status returned

vars == <<pc, cont, exc, log, remote, files, connection_name, CONNECTION_ID,
          response, genargs, users, FILENAME, external_id, job, sleep, job_status>>

(***************************************************************************)
(* Bounds of the model.                                                    *)
(***************************************************************************)
\* create_users is called with N in 0..MaxN
MaxN == 10
\* a connection listing holds at most MaxListing entries
MaxListing == 3
\* the remote answers "pending" to at most MaxPolls status queries of one call
MaxPolls == 3

(***************************************************************************)
(* Program constants.                                                      *)
(***************************************************************************)
\* bcrypt.gensalt(rounds=10)
BcryptRounds == 10
\* def check_job_status(..., sleep=5)
DefaultSleep == 5
\* time.sleep(5)
SleepSeconds == 5
\* def create_users(prefix, domain="example.com", N=5, password=None)
DefaultN == 5

None == <<>>
Some(v) == <<v>>
DictObj(d) == [type |-> "dict", value |-> d]
ResponseObj(r) == [type |-> "Response", value |-> r]

(***************************************************************************)
(* Uncaught exceptions and returns.  The notebook runs its cells in order  *)
(* and stops at the first cell that raises.                                *)
(***************************************************************************)
ReturnTo == IF cont = <<>> THEN "done" ELSE Head(cont)
ContAfter == IF cont = <<>> THEN <<>> ELSE Tail(cont)
Returns == pc' = ReturnTo /\ cont' = ContAfter /\ exc' = exc
Raises(e) == pc' = "halted" /\ cont' = cont /\ exc' = e

(***************************************************************************)
(* Password hasher and user record generator.                              *)
(***************************************************************************)
Salts == {"salt_a", "salt_b"}

\* bcrypt.hashpw(password, salt): the digest is a function of both, and the
\* hash string carries the cost and the salt in front of it.
hash_password(password, salt) ==
    [scheme |-> "2b", rounds |-> BcryptRounds, salt |-> salt,
     digest |-> <<"bcrypt", salt, password>>]

DigitChar(d) ==
    CASE d = 0 -> "0" [] d = 1 -> "1" [] d = 2 -> "2" [] d = 3 -> "3"
      [] d = 4 -> "4" [] d = 5 -> "5" [] d = 6 -> "6" [] d = 7 -> "7"
      [] d = 8 -> "8" [] d = 9 -> "9"

RECURSIVE DecStr(_)
DecStr(n) == IF n < 10 THEN DigitChar(n) ELSE DecStr(n \div 10) \o DigitChar(n % 10)

\* f"{i:02d}": decimal, padded with zeros on the left to a width of at least 2
\* (the sign counts in the width)
Fmt02d_NoPad(i) == IF i < 0 THEN "-" \o DecStr(-i) ELSE DecStr(i)
Fmt02d(i) ==
    IF i < 0 THEN "-" \o DecStr(-i)
    ELSE IF Len(DecStr(i)) < 2 THEN "0" \o DecStr(i) ELSE DecStr(i)

create_user(prefix, domain, password, i, salt) ==
    LET username == prefix \o "_" \o Fmt02d(i)
        pw == IF password = None THEN username ELSE password[1]
    IN [email |-> username \o "@" \o domain,
        email_verified |-> TRUE,
        password_hash |-> hash_password(pw, salt),
        name |-> username \o "@" \o domain,
        nickname |-> username,
        username |-> username]

\* [create_user(prefix, domain, password, i) for i in range(1, N + 1)];
\* salts[i] is the salt bcrypt.gensalt draws in the i-th call
create_users_OffByOne(prefix, domain, N, password, salts) ==
    [i \in 1..(N - 1) |-> create_user(prefix, domain, password, i, salts[i])]
create_users(prefix, domain, N, password, salts) ==
    [i \in 1..N |-> create_user(prefix, domain, password, i, salts[i])]

\* json.dump(users, f, indent=4): an array of objects, each the record's
\* key/value pairs in insertion order
JsonObject(u) ==
    << <<"email", u.email>>, <<"email_verified", u.email_verified>>,
       <<"password_hash", u.password_hash>>, <<"name", u.name>>,
       <<"nickname", u.nickname>>, <<"username", u.username>> >>
JsonDump(us) == [i \in 1..Len(us) |-> JsonObject(us[i])]

UsersFileName(prefix) == prefix \o "_users.json"

\* harness call of create_users(prefix, domain, N, password)
CreateUsers ==
    /\ pc = "create_users"
    /\ \E salts \in [1..genargs.N -> Salts] :
         users' = Some(create_users(genargs.prefix, genargs.domain, genargs.N,
                                    genargs.password, salts))
    /\ Returns
    /\ UNCHANGED <<log, remote, files, connection_name, CONNECTION_ID, response,
                   genargs, FILENAME, external_id, job, sleep, job_status>>

\* create_user_file(prefix, domain, N, password, id)
CreateUserFile ==
    /\ pc = "create_user_file"
    /\ \E salts \in [1..(IF genargs.id = None THEN genargs.N ELSE 1) -> Salts] :
         LET us == IF genargs.id = None
                   THEN create_users(genargs.prefix, genargs.domain, genargs.N,
                                     genargs.password, salts)
                   ELSE <<create_user(genargs.prefix, genargs.domain,
                                      genargs.password, genargs.id[1], salts[1])>>
             filename == UsersFileName(genargs.prefix)
         IN /\ files' = (filename :> JsonDump(us)) @@ files
            /\ log' = Append(log, [op |-> "write_file", name |-> filename])
            /\ FILENAME' = Some(filename)
    /\ Returns
    /\ UNCHANGED <<remote, connection_name, CONNECTION_ID, response, genargs,
                   users, external_id, job, sleep, job_status>>

(***************************************************************************)
(* get_connection_id                                                       *)
(***************************************************************************)
ConnIds == {"con_1", "con_2"}
ConnNames == {"Username-Password-Authentication", "other-db"}
Connections == [id : ConnIds, name : ConnNames]
Listings == UNION {[1..n -> Connections] : n \in 0..MaxListing}

\* next(conn["id"] for conn in connections if conn["name"] == connection_name):
\* the generator is consumed from the front; next() on an exhausted generator
\* raises StopIteration
RECURSIVE NextMatch(_, _)
NextMatch(connections, name) ==
    IF connections = <<>> THEN [raised |-> "StopIteration"]
    ELSE IF Head(connections).name = name
         THEN [raised |-> "none", value |-> Head(connections).id]
         ELSE NextMatch(Tail(connections), name)

\* requests.get(url, headers, params={"strategy": "auth0"}) answered with
\* `listing`; the status code is not looked at
GetConnectionId ==
    /\ pc = "get_connection_id"
    /\ \E listing \in Listings :
         LET resp == [status_code |-> 200, body |-> listing]
             found == NextMatch(resp.body, connection_name)
         IN /\ log' = Append(log, [op |-> "list_connections",
                                   strategy |-> "auth0", resp |-> resp])
            /\ IF found.raised = "none"
               THEN /\ CONNECTION_ID' = Some(found.value)
                    /\ response' = Some(resp.body)
                    /\ Returns
               ELSE /\ UNCHANGED <<CONNECTION_ID, response>>
                    /\ Raises(found.raised)
    /\ UNCHANGED <<remote, files, connection_name, genargs, users, FILENAME,
                   external_id, job, sleep, job_status>>

(***************************************************************************)
(* The remote import job.  It exists once a submission was accepted, and   *)
(* its status only moves forward: pending, then processing or a terminal   *)
(* status; never back to pending.                                          *)
(***************************************************************************)
JobIds == {"job_1", "job_2"}
RemoteSuccessors(s) ==
    CASE s = "pending" -> {"processing", "completed", "failed"}
      [] s = "processing" -> {"completed", "failed"}
      [] OTHER -> {}

RemoteAdvance ==
    /\ RemoteSuccessors(remote) # {}
    /\ remote' \in RemoteSuccessors(remote)
    /\ UNCHANGED <<pc, cont, exc, log, files, connection_name, CONNECTION_ID,
                   response, genargs, users, FILENAME, external_id, job, sleep,
                   job_status>>

ErrorBody == [error |-> "error", message |-> "request failed"]

(***************************************************************************)
(* start_import_job                                                        *)
(***************************************************************************)
\* what POST /api/v2/jobs/users-imports may answer
PostResponses ==
    {[status_code |-> c, body |-> [id |-> "job_1", status |-> "pending"]] :
        c \in {200, 201, 202}}
    \cup {[status_code |-> c, body |-> ErrorBody] : c \in {400, 500}}

\* if external_id: files["external_id"] = (None, external_id)
Truthy(opt) == opt # None /\ opt[1] # ""

MultipartFiles(filename, content, connection_id, ext) ==
    IF Truthy(ext)
    THEN [users |-> <<filename, content, "application/json">>,
          connection_id |-> connection_id,
          send_completion_email |-> "false",
          external_id |-> ext[1]]
    ELSE [users |-> <<filename, content, "application/json">>,
          connection_id |-> connection_id,
          send_completion_email |-> "false"]

\* the value start_import_job returns for the answer `resp`
start_import_job_Only200(resp) ==
    IF resp.status_code = 200 THEN DictObj(resp.body) ELSE ResponseObj(resp)
start_import_job_return(resp) ==
    IF resp.status_code = 200 \/ resp.status_code = 202
    THEN DictObj(resp.body)
    ELSE ResponseObj(resp)

StartImportJob ==
    /\ pc = "start_import_job"
    /\ IF FILENAME[1] \notin DOMAIN files
       THEN /\ Raises("FileNotFoundError")
            /\ UNCHANGED <<log, remote, job>>
       ELSE \E resp \in PostResponses :
            /\ log' = Append(log,
                  [op |-> "post_import",
                   files |-> MultipartFiles(FILENAME[1], files[FILENAME[1]],
                                            CONNECTION_ID[1], external_id),
                   resp |-> resp])
            /\ remote' = IF "id" \in DOMAIN resp.body THEN "pending" ELSE remote
            /\ job' = Some(start_import_job_return(resp))
            /\ Returns
    /\ UNCHANGED <<files, connection_name, CONNECTION_ID, response, genargs,
                   users, FILENAME, external_id, sleep, job_status>>

(***************************************************************************)
(* check_job_status                                                        *)
(***************************************************************************)
PollErrorCodes == {204, 500}

\* what GET /api/v2/jobs/{id} may answer while the job's status is `s`
JobBody(id, s) ==
    IF s = "pending"
    THEN [id |-> id, status |-> s]
    ELSE [id |-> id, status |-> s, summary |-> "summary"]
JobResponses(id, s) ==
    (IF s = "none" THEN {} ELSE {[status_code |-> 200, body |-> JobBody(id, s)]})
    \cup {[status_code |-> c, body |-> ErrorBody] : c \in PollErrorCodes}

\* url = f"https://{domain}/api/v2/jobs/{job['id']}": subscripting a
\* requests.Response raises TypeError, a dict without the key raises KeyError
job_url_NoSubscript(j) ==
    IF j.type = "dict" /\ "id" \in DOMAIN j.value
    THEN [raised |-> "none", value |-> j.value.id]
    ELSE [raised |-> "none", value |-> "job_1"]
job_url(j) ==
    IF j.type # "dict" THEN [raised |-> "TypeError"]
    ELSE IF "id" \notin DOMAIN j.value THEN [raised |-> "KeyError"]
    ELSE [raised |-> "none", value |-> j.value.id]

IsGetJob(e) == e.op = "get_job"
IsSleep(e) == e.op = "sleep"
Queries == SelectSeq(log, IsGetJob)
Sleeps == SelectSeq(log, IsSleep)

\* one pass through the body of `while pending:` for the answer `resp`, and
\* the prints after the loop when it ends
loop_body_OnlyKnownTerminal(resp) ==
    IF resp.status_code = 200
    THEN IF resp.body.status \notin {"completed", "failed"}
         THEN [next |-> "continue", slept |-> <<SleepSeconds>>]
         ELSE [next |-> "return", slept |-> <<>>, ret |-> DictObj(resp.body)]
    ELSE [next |-> "return", slept |-> <<>>, ret |-> ResponseObj(resp)]
loop_body_RetryOnError(resp) ==
    IF resp.status_code = 200
    THEN IF resp.body.status = "pending"
         THEN [next |-> "continue", slept |-> <<SleepSeconds>>]
         ELSE [next |-> "return", slept |-> <<>>, ret |-> DictObj(resp.body)]
    ELSE IF Len(Queries) < 1
         THEN [next |-> "continue", slept |-> <<SleepSeconds>>]
         ELSE [next |-> "return", slept |-> <<>>, ret |-> ResponseObj(resp)]
loop_body_MaxAttempts(resp) ==
    IF resp.status_code = 200
    THEN IF resp.body.status = "pending" /\ Len(Queries) < 1
         THEN [next |-> "continue", slept |-> <<SleepSeconds>>]
         ELSE [next |-> "return", slept |-> <<>>, ret |-> DictObj(resp.body)]
    ELSE [next |-> "return", slept |-> <<>>, ret |-> ResponseObj(resp)]
loop_body(resp) ==
    IF resp.status_code = 200
    THEN IF resp.body.status = "pending"
         THEN [next |-> "continue", slept |-> <<SleepSeconds>>]
         ELSE IF {"id", "status", "summary"} \subseteq DOMAIN resp.body
              THEN [next |-> "return", slept |-> <<>>, ret |-> DictObj(resp.body)]
              ELSE [next |-> "raise", slept |-> <<>>, exc |-> "KeyError"]
    ELSE [next |-> "return", slept |-> <<>>, ret |-> ResponseObj(resp)]

\* entry of check_job_status(job, connection_id, domain, access_token, sleep)
CheckJobStatus ==
    /\ pc = "check_job_status"
    /\ IF job_url(job[1]).raised = "none"
       THEN pc' = "polling" /\ UNCHANGED <<cont, exc>>
       ELSE Raises(job_url(job[1]).raised)
    /\ UNCHANGED <<log, remote, files, connection_name, CONNECTION_ID, response,
                   genargs, users, FILENAME, external_id, job, sleep, job_status>>

SleepEntries(secs) == [i \in 1..Len(secs) |-> [op |-> "sleep", secs |-> secs[i]]]

\* one iteration of the loop: the request, its answer, and what follows it
PollIteration ==
    /\ pc = "polling"
    /\ \E resp \in JobResponses(job_url(job[1]).value, remote) :
         /\ (resp.status_code = 200 /\ resp.body.status = "pending")
               => Len(Queries) < MaxPolls
         /\ LET out == loop_body(resp)
            IN /\ log' = Append(log, [op |-> "get_job",
                                      id |-> job_url(job[1]).value,
                                      resp |-> resp])
                         \o SleepEntries(out.slept)
               /\ IF out.next = "continue"
                  THEN UNCHANGED <<pc, cont, exc, job_status>>
                  ELSE IF out.next = "return"
                       THEN job_status' = Some(out.ret) /\ Returns
                       ELSE Raises(out.exc) /\ UNCHANGED job_status
    /\ UNCHANGED <<remote, files, connection_name, CONNECTION_ID, response,
                   genargs, users, FILENAME, external_id, job, sleep>>

(***************************************************************************)
(* The notebook as written, its code cells run in order.  Cell 10 calls    *)
(* get_connection_id.  Cell 12 does not compile: line 301 has no comma     *)
(* between prefix=PREFIX and domain=EMAIL_DOMAIN, so the cell raises       *)
(* SyntaxError before any of its statements runs, no file is written and   *)
(* FILENAME stays undefined.  The run stops there; cell 13 is not reached. *)
(***************************************************************************)
NotebookCells_FileFirst == <<"cell12", "get_connection_id", "cell13">>
NotebookCells == <<"get_connection_id", "cell12", "cell13">>

Idle ==
    /\ exc = "none"
    /\ log = <<>>
    /\ CONNECTION_ID = None
    /\ response = None
    /\ users = None
    /\ FILENAME = None
    /\ job = None
    /\ job_status = None

\* cell 12: rejected by the compiler, nothing in it is executed
Cell12 ==
    /\ pc = "cell12"
    /\ Raises("SyntaxError")
    /\ UNCHANGED <<log, remote, files, connection_name, CONNECTION_ID, response,
                   genargs, users, FILENAME, external_id, job, sleep, job_status>>

Init ==
    /\ Idle
    /\ pc = Head(NotebookCells)
    /\ cont = Tail(NotebookCells)
    /\ remote = "none"
    /\ files = <<>>
    /\ connection_name = "Username-Password-Authentication"
    /\ genargs = None
    /\ external_id = None
    /\ sleep = DefaultSleep

Next == GetConnectionId \/ Cell12

Spec == Init /\ [][Next]_vars

(***************************************************************************)
(* Cell 13 on its own: job = start_import_job(...) followed by             *)
(* job_status = check_job_status(...), with the globals it reads           *)
(* (FILENAME, CONNECTION_ID) and the payload file given.  external_id and  *)
(* sleep are not passed and keep their defaults.                           *)
(***************************************************************************)
Cell13Calls_Resubmit == <<"start_import_job", "check_job_status", "start_import_job">>
Cell13Calls == <<"start_import_job", "check_job_status">>

Prefixes == {"user", "imfake"}
Domains == {"example.com", "test.edu"}
Passwords == {None, Some("secret")}
SingleIds == {0, 1, 7, 12, 100}
SleepArgs == {1, DefaultSleep, 30}

InitCell13 ==
    /\ exc = "none"
    /\ log = <<>>
    /\ response = None
    /\ users = None
    /\ job = None
    /\ job_status = None
    /\ pc = Head(Cell13Calls)
    /\ cont = Tail(Cell13Calls)
    /\ remote = "none"
    /\ \E prefix \in Prefixes, salt \in Salts :
         /\ FILENAME = Some(UsersFileName(prefix))
         /\ files \in {<<>>,
                       UsersFileName(prefix) :>
                           JsonDump(<<create_user(prefix, "test.edu", None, 1, salt)>>)}
    /\ CONNECTION_ID \in {Some(c) : c \in ConnIds}
    /\ connection_name = "Username-Password-Authentication"
    /\ genargs = None
    /\ external_id = None
    /\ sleep = DefaultSleep

NextCell13 == StartImportJob \/ CheckJobStatus \/ PollIteration \/ RemoteAdvance

SpecCell13 == InitCell13 /\ [][NextCell13]_vars

\* every run of the notebook as written, and every run of cell 13 on its own
SpecRuns == (Init \/ InitCell13) /\ [][Next \/ NextCell13]_vars

(***************************************************************************)
(* Each function on its own, called with arguments drawn from small sets.  *)
(***************************************************************************)
InitGen ==
    /\ Idle
    /\ cont = <<>>
    /\ remote = "none"
    /\ files = <<>>
    /\ connection_name = "Username-Password-Authentication"
    /\ external_id = None
    /\ sleep = DefaultSleep
    /\ \/ /\ pc \in {"create_users", "create_user_file"}
          /\ genargs \in [prefix : Prefixes, domain : Domains, N : 0..MaxN,
                          password : Passwords, id : {None}]
       \/ /\ pc = "create_user_file"
          /\ genargs \in [prefix : Prefixes, domain : Domains, N : {DefaultN},
                          password : Passwords, id : {Some(i) : i \in SingleIds}]

NextGen == CreateUsers \/ CreateUserFile

SpecGen == InitGen /\ [][NextGen]_vars

InitConn ==
    /\ Idle
    /\ pc = "get_connection_id"
    /\ cont = <<>>
    /\ remote = "none"
    /\ files = <<>>
    /\ connection_name \in ConnNames \cup {"missing-db"}
    /\ genargs = None
    /\ external_id = None
    /\ sleep = DefaultSleep

NextConn == GetConnectionId

SpecConn == InitConn /\ [][NextConn]_vars

InitSubmit ==
    /\ exc = "none"
    /\ log = <<>>
    /\ response = None
    /\ users = None
    /\ job = None
    /\ job_status = None
    /\ pc = "start_import_job"
    /\ cont = <<>>
    /\ remote = "none"
    /\ \E prefix \in Prefixes, salt \in Salts :
         /\ FILENAME = Some(UsersFileName(prefix))
         /\ files \in {<<>>,
                       UsersFileName(prefix) :>
                           JsonDump(<<create_user(prefix, "test.edu", None, 1, salt)>>)}
    /\ CONNECTION_ID \in {Some(c) : c \in ConnIds}
    /\ connection_name = "Username-Password-Authentication"
    /\ genargs = None
    /\ external_id \in {None, Some(""), Some("ext_1")}
    /\ sleep = DefaultSleep

NextSubmit == StartImportJob

SpecSubmit == InitSubmit /\ [][NextSubmit]_vars

InitPoll ==
    /\ exc = "none"
    /\ log = <<>>
    /\ response = None
    /\ users = None
    /\ FILENAME = None
    /\ job_status = None
    /\ CONNECTION_ID \in {Some(c) : c \in ConnIds}
    /\ pc = "check_job_status"
    /\ cont = <<>>
    /\ remote = "pending"
    /\ files = <<>>
    /\ connection_name = "Username-Password-Authentication"
    /\ genargs = None
    /\ external_id = None
    /\ job \in {Some(DictObj([id |-> j, status |-> "pending"])) : j \in JobIds}
               \cup {Some(ResponseObj([status_code |-> 400, body |-> ErrorBody]))}
    /\ sleep \in SleepArgs

NextPoll == CheckJobStatus \/ PollIteration \/ RemoteAdvance

SpecPoll == InitPoll /\ [][NextPoll]_vars

\* the interpreter keeps executing the loop; nothing is assumed of the remote
FairSpecPoll ==
    SpecPoll /\ WF_vars(CheckJobStatus) /\ WF_vars(PollIteration)

(***************************************************************************)
(* Properties.                                                             *)
(***************************************************************************)
IsPost(e) == e.op = "post_import"
Posts == SelectSeq(log, IsPost)
IsPending200(r) == r.status_code = 200 /\ r.body.status = "pending"
IsFinal200(r) == r.status_code = 200 /\ r.body.status # "pending"
Matches(listing, name) == {k \in 1..Len(listing) : listing[k].name = name}
Before(i, op) == \E h \in 1..(i - 1) : log[h].op = op

\* C1: when the first k answers are 200 "pending" and answer k+1 is 200 with
\* any other status, check_job_status has made exactly k+1 queries and k
\* sleeps, and has returned the job of answer k+1, whose status is not
\* "pending"; for k = 0 that is one query and no sleep.
C1_PollReturnsFirstNonPending ==
    \A n \in 1..Len(Queries) :
        (/\ IsFinal200(Queries[n].resp)
         /\ \A m \in 1..(n - 1) : IsPending200(Queries[m].resp))
        => /\ Len(Queries) = n
           /\ Len(Sleeps) = n - 1
           /\ log[Len(log)] = Queries[n]
           /\ pc = "done"
           /\ exc = "none"
           /\ job_status = Some(DictObj(Queries[n].resp.body))
           /\ job_status[1].value.status # "pending"

C1_Witness ==
    /\ pc = "done"
    /\ Len(Queries) = 3
    /\ Len(Sleeps) = 2
    /\ job_status # None
    /\ job_status[1].type = "dict"
    /\ job_status[1].value.status = "processing"

\* C2: an answer with a status code other than 200 is the last thing
\* check_job_status does: no query and no sleep follows it, and the call
\* returns that response (its status code and body), not a job.
C2_PollAbortsOnNon200 ==
    \A n \in 1..Len(Queries) :
        Queries[n].resp.status_code # 200
        => /\ Len(Queries) = n
           /\ log[Len(log)] = Queries[n]
           /\ pc = "done"
           /\ exc = "none"
           /\ job_status # None
           /\ job_status[1].type = "Response"
           /\ job_status[1].value.status_code = Queries[n].resp.status_code
           /\ job_status[1].value.body = Queries[n].resp.body

C2_Witness ==
    /\ pc = "done"
    /\ Len(Queries) = 3
    /\ Len(Sleeps) = 2
    /\ Queries[3].resp.status_code = 204
    /\ job_status # None
    /\ job_status[1].type = "Response"

\* C3: start_import_job returns the parsed body (the job descriptor) exactly
\* when the answer's status code is 200 or 202; for any other code it returns
\* the response, with its status code and body, and not a job descriptor.
C3_SubmitSuccessIff200Or202 ==
    \A n \in 1..Len(Posts) :
        /\ job # None
        /\ exc = "none"
        /\ IF Posts[n].resp.status_code \in {200, 202}
           THEN /\ job[1].type = "dict"
                /\ job[1].value = Posts[n].resp.body
           ELSE /\ job[1].type = "Response"
                /\ job[1].value.status_code = Posts[n].resp.status_code
                /\ job[1].value.body = Posts[n].resp.body

C3_Witness ==
    /\ pc = "done"
    /\ Len(Posts) = 1
    /\ Posts[1].resp.status_code = 201
    /\ job # None
    /\ job[1].type = "Response"

\* C4: get_connection_id returns the id of the first entry whose name equals
\* connection_name; when no entry matches it fails with a NotFound error and
\* returns no id.
C4_FirstMatchOrNotFound ==
    \A i \in 1..Len(log) :
        log[i].op = "list_connections"
        => LET listing == log[i].resp.body
               hits == Matches(listing, connection_name)
           IN IF hits # {}
              THEN /\ exc = "none"
                   /\ CONNECTION_ID =
                        Some(listing[CHOOSE k \in hits : \A h \in hits : k <= h].id)
              ELSE /\ exc = "NotFound"
                   /\ CONNECTION_ID = None

\* C5: for N >= 1, create_users returns exactly N records; the i-th has
\* username prefix_ii (i written with two digits, zero-padded), email
\* username@domain and email_verified = true.
TwoDigits ==
    <<"01", "02", "03", "04", "05", "06", "07", "08", "09", "10", "11", "12">>

C5_CreateUsersRecords ==
    (pc = "done" /\ users # None /\ genargs.N >= 1)
    => /\ Len(users[1]) = genargs.N
       /\ \A i \in 1..genargs.N :
            /\ users[1][i].username = genargs.prefix \o "_" \o TwoDigits[i]
            /\ users[1][i].email = users[1][i].username \o "@" \o genargs.domain
            /\ users[1][i].email_verified = TRUE

C5_Witness ==
    /\ pc = "done"
    /\ users # None
    /\ genargs.N = 10
    /\ Len(users[1]) = 10
    /\ users[1][3].username = "imfake_03"
    /\ users[1][10].email = "imfake_10@test.edu"

\* C6: every wait between two status queries lasts the number of seconds
\* given as the sleep argument of check_job_status.
C6_SleepsForPollInterval ==
    \A i \in 1..Len(Sleeps) : Sleeps[i].secs = sleep

\* C7: an uncaught exception ends the run, and once a step has failed (a
\* listing without a match, a submission answered with a code other than
\* 200/202, a status query answered with a code other than 200) no remote
\* call is issued any more.
RemoteOps == {"list_connections", "post_import", "get_job"}
FailedStep(e) ==
    \/ e.op = "list_connections" /\ Matches(e.resp.body, connection_name) = {}
    \/ e.op = "post_import" /\ e.resp.status_code \notin {200, 202}
    \/ e.op = "get_job" /\ e.resp.status_code # 200

C7_NoRemoteCallAfterFailure ==
    /\ exc # "none" => pc = "halted"
    /\ \A i \in 1..Len(log) :
         FailedStep(log[i]) => \A j \in (i + 1)..Len(log) : log[j].op \notin RemoteOps

C7_Witness ==
    /\ pc = "halted"
    /\ exc = "TypeError"
    /\ Len(log) = 1
    /\ log[1].op = "post_import"
    /\ log[1].resp.status_code = 400
    /\ job # None
    /\ job[1].type = "Response"

\* C8: check_job_status has no attempt bound: an answer of 200 "pending"
\* always leaves it polling, it has returned only after an answer that is
\* non-200 or not "pending", and once the remote job has left "pending" the
\* polling call does return.
C8_PollsUntilNotPending ==
    /\ [][(/\ pc = "polling"
           /\ Len(Queries') = Len(Queries) + 1
           /\ IsPending200(Queries'[Len(Queries')].resp))
          => (pc' = "polling" /\ job_status' = None)]_vars
    /\ [](pc = "done"
          => (Len(Queries) >= 1 /\ ~IsPending200(Queries[Len(Queries)].resp)))
    /\ ((pc = "polling" /\ remote # "pending") ~> (pc = "done"))

C8_Witness ==
    /\ pc = "polling"
    /\ remote = "pending"
    /\ Len(Queries) = 3
    /\ Len(Sleeps) = 3
    /\ \A n \in 1..3 : IsPending200(Queries[n].resp)

\* C9: over a whole run at most one import submission is sent, whatever the
\* remote answers to it and to the status queries.
C9_AtMostOneSubmission == Len(Posts) <= 1

C9_Witness ==
    /\ pc = "done"
    /\ Len(Posts) = 1
    /\ Len(Queries) = 2
    /\ Queries[2].resp.status_code = 500
    /\ job_status # None

====
